---- MODULE Spec2Model ----
(***************************************************************************)
(* Model of src/model.py: the heart-disease cleaning steps, the four       *)
(* classification pipelines, the two evaluation harnesses and main().      *)
(*                                                                         *)
(* Numbers.  Cells read from the CSV are floats/ints; the model keeps them *)
(* in fixed point, Unit parts to one, so that the 0.25/0.75 quantile       *)
(* interpolation and the 1.5*IQR fence of handle_outliers are exact.       *)
(* A missing cell (pandas NaN) is the value NaN.  A metric or an accuracy  *)
(* is the float n/d of two counts and is kept as the pair [n, d]; sums and *)
(* means of accuracies are IEEE-754 doubles, computed as numpy computes    *)
(* them; printed metrics are thousandths (round(x, 3)).                    *)
(*                                                                         *)
(* Library calls (classifier fit/predict, cross-validation, the shuffle of *)
(* train_test_split) are black boxes: their results are chosen by \E, and  *)
(* they raise where the library refuses its input.                         *)
(***************************************************************************)
EXTENDS Integers, Sequences, FiniteSets, TLC

VARIABLES
    pc,              \* position in main() / in the harness
    fs,              \* TRUE iff heart_disease.csv exists on disk
    csv,             \* the content of heart_disease.csv (once it exists)
    heap,            \* DataFrame objects: object id -> dataframe
    df,              \* main's local df: an object id (0: unbound)
    arg,             \* object id passed to the cleaning function called last
    before,          \* content of heap[arg] when that call was made
    ret,             \* object id that call returned
    X, y,            \* main's feature rows and target labels
    trace,           \* operations performed so far, in order
    exit_code,       \* process exit status (-1: still running)
    stdout,          \* what was printed, in order (layout; values in table, cv_mean)
    num,             \* argument num of evaluate_models_iteratively
    i,               \* its loop counter
    frame,           \* active harness function: "none", "iter" or "once"
    accuracies,      \* its dict: model name -> list of accuracies
    mean_accuracies, \* its dict: model name -> mean (or "unset")
    accs,            \* KN_acc, LR_acc, SVM_acc, XGB_acc of the running iteration
    split,           \* the current train/test split
    calls,           \* library calls made on the current split, in order
    cv_mean,         \* "Mean CV accuracy" of the last pipeline call (thousandths; -1: nan)
    y_pred,          \* prediction of the last pipeline call: test index -> label
    table,           \* metrics table printed by the last pipeline call
    plotted          \* the figure plot_performance drew: model name -> marks

vars == <<pc, fs, csv, heap, df, arg, before, ret, X, y, trace,
          exit_code, stdout, num, i, frame, accuracies, mean_accuracies,
          accs, split, calls, cv_mean, y_pred, table, plotted>>

cleanVars == <<heap, df, arg, before, ret>>
harnessVars == <<num, i, frame, accuracies, mean_accuracies, accs, split,
                 calls, cv_mean, y_pred, table, plotted>>

-----------------------------------------------------------------------------
(* Bounds of the model *)

MaxRows == 4     \* rows of a dataset given to the cleaning steps alone
MaxIter == 2     \* largest num given to evaluate_models_iteratively
MaxTest == 3     \* largest test subset given to results() alone
MaxTrace == 3    \* longest accuracy trace given to np.mean and the marks alone

-----------------------------------------------------------------------------
(* Data *)

Unit == 8
NaN == -999999

isna(v) == v = NaN
Cell(v) == IF isna(v) THEN NaN ELSE v * Unit

CsvColumns == <<"age", "sex", "cp", "trestbps", "chol", "fbs", "restecg",
                "thalach", "exang", "oldpeak", "slope", "ca", "thal", "num">>
FeatureColumns == <<"age", "sex", "cp", "trestbps", "chol", "fbs", "restecg",
                    "thalach", "exang", "oldpeak", "slope", "ca", "thal">>
BoundedColumns == <<"age", "trestbps", "chol", "thalach", "oldpeak">>
ModelNames == <<"KNeighbors", "Logistic Regression", "SVM", "XGBoost">>

Range(s) == {s[k] : k \in DOMAIN s}

Rec(age, sex, cp, trestbps, chol, fbs, restecg, thalach, exang, oldpeak, slope, ca, thal, n) ==
    [age |-> Cell(age), sex |-> Cell(sex), cp |-> Cell(cp),
     trestbps |-> Cell(trestbps), chol |-> Cell(chol), fbs |-> Cell(fbs),
     restecg |-> Cell(restecg), thalach |-> Cell(thalach),
     exang |-> Cell(exang), oldpeak |-> Cell(oldpeak), slope |-> Cell(slope),
     ca |-> Cell(ca), thal |-> Cell(thal), num |-> Cell(n)]

\* Records in the shape of the UCI heart-disease file.
R1 == Rec(63, 1, 1, 145, 233, 1, 2, 150, 0, 2, 3, 0, 6, 0)
R2 == Rec(67, 1, 4, 160, 286, 0, 2, 108, 1, 1, 2, 3, 3, 2)
R3 == Rec(29, 0, 2, 200, 564, 0, 0, 202, 0, 6, 1, 0, 3, 0)
R4 == Rec(77, 1, 4, 94, 126, 0, 0, 71, 1, 0, 2, 1, 7, 4)
R5 == Rec(52, 1, 3, 138, 223, 0, 0, 169, 0, 0, 1, NaN, 3, 0)
R6 == Rec(56, 0, 2, 140, 294, 0, 2, 153, 0, 1, 2, 0, NaN, 1)
R7 == Rec(57, 0, 4, 120, 354, 0, 0, 163, 1, 0, 1, 0, 3, 1)
R8 == Rec(37, 1, 3, 130, 250, 0, 0, 187, 0, 3, 3, 0, 3, 0)
R9 == Rec(41, 0, 2, 130, 204, 0, 2, 172, 0, 1, 1, 0, 3, 0)
R10 == Rec(56, 1, 2, 120, 236, 0, 0, 178, 0, 1, 1, 0, 3, 0)
R11 == Rec(62, 0, 4, 140, 268, 0, 2, 160, 0, 4, 3, 2, 3, 3)

RowSamples == {R1, R2, R3, R4, R5, R7}

SeqsUpTo(S, n) == UNION {[1..k -> S] : k \in 0..n}

DataFrame(rows) == [columns |-> CsvColumns, rows |-> rows]

\* CSV files main() is run on.  CsvA: nine complete records (five without
\* and four with heart disease), two incomplete ones, values outside the
\* fences; its training subsets have seven rows, and the five folds of the
\* cross-validation can be made from those that hold all five records
\* without heart disease.  CsvB: a single complete record, which
\* train_test_split cannot split (the training subset would be empty).
CsvA == DataFrame(<<R1, R5, R2, R3, R8, R6, R4, R7, R9, R10, R11>>)
CsvB == DataFrame(<<R5, R2>>)
CsvFiles == {CsvA, CsvB}

Column(d, col) == [k \in DOMAIN d.rows |-> d.rows[k][col]]

-----------------------------------------------------------------------------
(* Cleaning: dropna, process_target, handle_outliers *)

\* Faulty variant: dropna(how='all'), which drops only rows with no cell at all.
dropna_all(d) ==
    [columns |-> d.columns,
     rows |-> SelectSeq(d.rows, LAMBDA r : \E c \in DOMAIN r : ~isna(r[c]))]

\* df.dropna().reset_index(drop=True): a new dataframe holding, in order,
\* the rows that have no missing cell.
dropna(d) ==
    [columns |-> d.columns,
     rows |-> SelectSeq(d.rows, LAMBDA r : \A c \in DOMAIN r : ~isna(r[c]))]

\* Faulty variant: 1 if x >= 0.
binarize_nonneg(x) == IF ~isna(x) /\ x >= 0 THEN 1 ELSE 0

\* lambda x: 1 if x > 0 else 0   (NaN > 0 is False)
binarize(x) == IF ~isna(x) /\ x > 0 THEN 1 ELSE 0

DropColumn(columns, col) == SelectSeq(columns, LAMBDA c : c # col)

\* df['target'] = df['num'].apply(...); df.drop('num', axis=1): the new content.
TargetEncoded(d) ==
    [columns |-> Append(DropColumn(d.columns, "num"), "target"),
     rows |-> [k \in DOMAIN d.rows |->
                 [c \in (DOMAIN d.rows[k] \ {"num"}) \cup {"target"} |->
                     IF c = "target" THEN binarize(d.rows[k]["num"])
                     ELSE d.rows[k][c]]]]

\* Series.quantile(q4 / 4), linear interpolation over the non-missing values.
quantile(vals, q4) ==
    LET present == SelectSeq(vals, LAMBDA v : ~isna(v))
        s == SortSeq(present, LAMBDA a, b : a < b)
        n == Len(s)
        pos4 == (n - 1) * q4
        lo == (pos4 \div 4) + 1
        r == pos4 % 4
        hi == IF r > 0 THEN lo + 1 ELSE lo
    IN  IF n = 0 THEN NaN ELSE s[lo] + ((s[hi] - s[lo]) * r) \div 4

\* lower_bound, upper_bound of one column (lines 51-55).
Fence(vals) ==
    LET q1 == quantile(vals, 1)
        q3 == quantile(vals, 3)
        iqr == q3 - q1
    IN  IF isna(q1) THEN [lo |-> NaN, hi |-> NaN]
        ELSE [lo |-> q1 - (3 * iqr) \div 2, hi |-> q3 + (3 * iqr) \div 2]

\* Faulty variant: the second np.where is missing.
ClipValue_lower_only(v, f) ==
    IF ~isna(v) /\ ~isna(f.lo) /\ v < f.lo THEN f.lo ELSE v

\* np.where(col < lower, lower, col) then np.where(col > upper, upper, col)
ClipValue(v, f) ==
    LET low == IF ~isna(v) /\ ~isna(f.lo) /\ v < f.lo THEN f.lo ELSE v
    IN  IF ~isna(low) /\ ~isna(f.hi) /\ low > f.hi THEN f.hi ELSE low

ClipColumn(d, col) ==
    LET f == Fence(Column(d, col))
    IN  [d EXCEPT !.rows = [k \in DOMAIN d.rows |->
                              [d.rows[k] EXCEPT ![col] = ClipValue(@, f)]]]

RECURSIVE ClipColumns(_, _)
ClipColumns(d, cols) ==
    IF cols = <<>> THEN d
    ELSE ClipColumns(ClipColumn(d, Head(cols)), Tail(cols))

\* The content after the loop over the five columns.
Clipped(d) == ClipColumns(d, BoundedColumns)

\* Faulty variant: works on df.copy() and returns the copy.
handle_outliers_copy(h, r) == [heap |-> Append(h, Clipped(h[r])), ret |-> Len(h) + 1]

\* process_target(df) on object r of heap h: df[...] = ... and drop(inplace=True)
\* change the object itself; the function returns the object it was given.
process_target(h, r) == [heap |-> [h EXCEPT ![r] = TargetEncoded(@)], ret |-> r]

\* handle_outliers(df) on object r of heap h: df[col] = ... assigns the columns
\* of the object itself; the function returns the object it was given.
handle_outliers(h, r) == [heap |-> [h EXCEPT ![r] = Clipped(@)], ret |-> r]


-----------------------------------------------------------------------------
(* Metrics: results, print_results *)

Frac(n, d) == [n |-> n, d |-> d]

Count(yt, yp, a, b) == Cardinality({k \in DOMAIN yt : yt[k] = a /\ yp[k] = b})

\* Faulty variant: zero_division left at the library default, which yields 0.
precision_score_default(yt, yp) ==
    LET tp == Count(yt, yp, 1, 1)
        fp == Count(yt, yp, 0, 1)
    IN  IF tp + fp = 0 THEN Frac(0, 1) ELSE Frac(tp, tp + fp)

\* precision_score(y_test, y_pred, zero_division=1): tp / (tp + fp)
precision_score(yt, yp) ==
    LET tp == Count(yt, yp, 1, 1)
        fp == Count(yt, yp, 0, 1)
    IN  IF tp + fp = 0 THEN Frac(1, 1) ELSE Frac(tp, tp + fp)

\* recall_score(y_test, y_pred, zero_division=1): tp / (tp + fn)
recall_score(yt, yp) ==
    LET tp == Count(yt, yp, 1, 1)
        fn == Count(yt, yp, 1, 0)
    IN  IF tp + fn = 0 THEN Frac(1, 1) ELSE Frac(tp, tp + fn)

\* accuracy_score(y_test, y_pred): share of equal labels
accuracy_score(yt, yp) ==
    Frac(Cardinality({k \in DOMAIN yt : yt[k] = yp[k]}), Cardinality(DOMAIN yt))

\* mean_squared_error(y_test, y_pred): labels are 0/1, a squared error is 0 or 1
mean_squared_error(yt, yp) ==
    Frac(Cardinality({k \in DOMAIN yt : yt[k] # yp[k]}), Cardinality(DOMAIN yt))

\* Python floats and numpy float64 are IEEE-754 doubles.  A double that is not
\* negative is [k, e, m]: zero, nan, or the number M * 2^(e - Precision) whose
\* Precision-bit significand M is held in m as four digits in base 2^15, most
\* significant first.  Naturals of any size are such digit sequences.
Precision == 53
Base == 2^15

float_zero == [k |-> "zero", e |-> 0, m |-> <<>>]
float_nan == [k |-> "nan", e |-> 0, m |-> <<>>]

\* The digit of weight Base^p.
Digit(v, p) == IF p >= 0 /\ p < Len(v) THEN v[Len(v) - p] ELSE 0

\* v * 2^s and v \div 2^s, as numbers of n digits.
ShiftLeft(v, s, n) ==
    LET a == s \div 15
        b == s % 15
    IN  [k \in 1..n |-> ((Digit(v, n - k - a) * 2^b) % Base)
                         + (Digit(v, n - k - a - 1) \div 2^(15 - b))]

ShiftRight(v, s, n) ==
    LET a == s \div 15
        b == s % 15
    IN  [k \in 1..n |-> (Digit(v, n - k + a) \div 2^b)
                         + ((Digit(v, n - k + a + 1) % 2^b) * 2^(15 - b))]

\* Number of bits of v (0 for zero).
BitLength(v) ==
    IF \A k \in DOMAIN v : v[k] = 0 THEN 0
    ELSE LET top == CHOOSE k \in DOMAIN v : v[k] # 0 /\ \A j \in 1..(k - 1) : v[j] = 0
             bits == CHOOSE j \in 1..15 : 2^(j - 1) <= v[top] /\ v[top] < 2^j
         IN  15 * (Len(v) - top) + bits

\* The bit of weight 2^t, and whether v is a multiple of 2^t.
Bit(v, t) == (Digit(v, t \div 15) \div 2^(t % 15)) % 2

MultipleOfPower(v, t) ==
    /\ \A p \in 0..((t \div 15) - 1) : Digit(v, p) = 0
    /\ Digit(v, t \div 15) % 2^(t % 15) = 0

\* The n digits of a + b from weight Base^p upwards.
RECURSIVE AddDigits(_, _, _, _, _)
AddDigits(a, b, p, n, carry) ==
    IF p = n THEN <<>>
    ELSE LET t == Digit(a, p) + Digit(b, p) + carry
         IN  Append(AddDigits(a, b, p + 1, n, t \div Base), t % Base)

\* School division of v by the integer d, 0 < d <= 2^16, from digit k on with
\* remainder r carried in.
RECURSIVE DivideDigits(_, _, _, _)
DivideDigits(v, d, k, r) ==
    IF k > Len(v) THEN [q |-> <<>>, r |-> r]
    ELSE LET t == r * Base + v[k]
             rest == DivideDigits(v, d, k + 1, t % d)
         IN  [q |-> <<t \div d>> \o rest.q, r |-> rest.r]

\* Round-to-nearest, ties-to-even, of the exact value v * 2^(-scale), v of at
\* least Precision bits (sticky: the exact value is a little more than that).
\* dir is the sign of (rounded value - exact value).
RoundNearestEven(v, scale, sticky) ==
    LET n == BitLength(v)
        t == n - Precision
        M == ShiftRight(v, t, 4)
        guard == t > 0 /\ Bit(v, t - 1) = 1
        rest == sticky \/ (t > 1 /\ ~MultipleOfPower(v, t - 1))
        up == guard /\ (rest \/ M[4] % 2 = 1)
        inc == AddDigits(M, <<1>>, 0, 4, 0)
        value == IF ~up THEN [k |-> "num", e |-> n - scale, m |-> M]
                 ELSE IF inc[1] = 2^(Precision - 45)
                      THEN [k |-> "num", e |-> n - scale + 1,
                            m |-> <<2^(Precision - 46), 0, 0, 0>>]
                      ELSE [k |-> "num", e |-> n - scale, m |-> inc]
    IN  [value |-> value,
         dir |-> IF up THEN 1 ELSE IF guard \/ rest THEN -1 ELSE 0]

\* The exact quotient n / d of two integers, 0 < n, 0 < d <= 2^16, as a double.
RoundedQuotient(n, d) ==
    LET v == <<n \div (Base * Base), (n \div Base) % Base, n % Base, 0, 0, 0, 0, 0, 0>>
        res == DivideDigits(v, d, 1, 0)
    IN  RoundNearestEven(res.q, 6 * 15, res.r # 0)

\* float(n) / float(d) for integers n >= 0, d >= 0 (0/0 is nan).
float_of(f) ==
    IF f.d = 0 THEN float_nan
    ELSE IF f.n = 0 THEN float_zero
    ELSE RoundedQuotient(f.n, f.d).value

\* Sign of float(n/d) - n/d: whether the double lies above or below the fraction.
float_error_sign(f) ==
    IF f.d = 0 \/ f.n = 0 THEN 0 ELSE RoundedQuotient(f.n, f.d).dir

\* u + v in double arithmetic
float_add(u, v) ==
    IF u.k = "nan" \/ v.k = "nan" THEN float_nan
    ELSE IF u.k = "zero" THEN v
    ELSE IF v.k = "zero" THEN u
    ELSE LET hi == IF u.e >= v.e THEN u ELSE v
             lo == IF u.e >= v.e THEN v ELSE u
             s == hi.e - lo.e
         IN  IF s > Precision + 1 THEN hi
             ELSE RoundNearestEven(AddDigits(ShiftLeft(hi.m, s, 8), lo.m, 0, 8, 0),
                                   Precision - lo.e, FALSE).value

\* u / n in double arithmetic, n an integer, 0 < n <= 2^16
float_div(u, n) ==
    IF u.k # "num" THEN u
    ELSE LET res == DivideDigits(u.m \o <<0, 0>>, n, 1, 0)
         IN  RoundNearestEven(res.q, 2 * 15 + Precision - u.e, res.r # 0).value

\* u <= v for doubles that are not nan
float_leq(u, v) ==
    IF u.k = "zero" THEN TRUE
    ELSE IF v.k = "zero" THEN FALSE
    ELSE \/ u.e < v.e
         \/ /\ u.e = v.e
            /\ \/ u.m = v.m
               \/ \E k \in 1..4 : /\ u.m[k] < v.m[k]
                                  /\ \A j \in 1..(k - 1) : u.m[j] = v.m[j]

\* The next double above u > 0, and the next one below it.
float_succ(u) ==
    LET inc == AddDigits(u.m, <<1>>, 0, 4, 0)
    IN  IF u.k # "num" THEN u
        ELSE IF inc[1] = 2^(Precision - 45)
             THEN [u EXCEPT !.e = @ + 1, !.m = <<2^(Precision - 46), 0, 0, 0>>]
             ELSE [u EXCEPT !.m = inc]

float_pred(u) ==
    IF u.k # "num" THEN u
    ELSE IF u.m = <<2^(Precision - 46), 0, 0, 0>>
         THEN [u EXCEPT !.e = @ - 1,
                        !.m = <<2^(Precision - 45) - 1, Base - 1, Base - 1, Base - 1>>]
         ELSE LET p == CHOOSE k \in 1..4 : u.m[k] # 0 /\ \A j \in (k + 1)..4 : u.m[j] = 0
              IN  [u EXCEPT !.m = [k \in 1..4 |-> IF k < p THEN u.m[k]
                                                  ELSE IF k = p THEN u.m[k] - 1
                                                  ELSE Base - 1]]

\* The n digits of v * c from weight Base^p upwards, 0 <= c <= 2^15.
RECURSIVE MulDigits(_, _, _, _, _)
MulDigits(v, c, p, n, carry) ==
    IF p = n THEN <<>>
    ELSE LET t == Digit(v, p) * c + carry
         IN  Append(MulDigits(v, c, p + 1, n, t \div Base), t % Base)

\* u * c in double arithmetic, c an integer, 0 < c <= 2^15
float_mul(u, c) ==
    IF u.k # "num" THEN u
    ELSE RoundNearestEven(MulDigits(u.m, c, 0, 6, 0), Precision - u.e, FALSE).value

\* rint(u) of a double 0 <= u < 2^29, as an integer: the nearest integer, the
\* even one of two that are equally near.
float_rint(u) ==
    IF u.k # "num" THEN 0
    ELSE LET s == Precision - u.e
             whole == ShiftRight(u.m, s, 4)
             int == whole[3] * Base + whole[4]
             guard == Bit(u.m, s - 1) = 1
             rest == ~MultipleOfPower(u.m, s - 1)
         IN  IF guard /\ (rest \/ int % 2 = 1) THEN int + 1 ELSE int

\* res + a[lo] + a[lo + step] + ... + a[hi], added one after the other.
RECURSIVE AddInOrder(_, _, _, _, _)
AddInOrder(a, lo, hi, step, res) ==
    IF lo > hi THEN res
    ELSE IF res.k = "nan" THEN float_nan
    ELSE AddInOrder(a, lo + step, hi, step, float_add(res, a[lo]))

\* The eight partial sums r[0], ..., r[7] combined as numpy combines them.
CombineEight(r) ==
    float_add(float_add(float_add(r[0], r[1]), float_add(r[2], r[3])),
              float_add(float_add(r[4], r[5]), float_add(r[6], r[7])))

\* numpy's pairwise summation of the n doubles a[lo], a[lo + 1], ...: fewer
\* than 8 are added in order; up to 128 are added in 8 interleaved partial
\* sums that are then combined; more are split in two halves.
RECURSIVE pairwise_sum(_, _, _)
pairwise_sum(a, lo, n) ==
    IF n < 8 THEN AddInOrder(a, lo, lo + n - 1, 1, float_zero)
    ELSE IF n <= 128
    THEN AddInOrder(a, lo + n - (n % 8), lo + n - 1, 1,
                    CombineEight([j \in 0..7 |->
                        AddInOrder(a, lo + 8 + j, lo + n - (n % 8) - 1, 8, a[lo + j])]))
    ELSE LET n2 == (n \div 2) - ((n \div 2) % 8)
         IN  float_add(pairwise_sum(a, lo, n2), pairwise_sum(a, lo + n2, n - n2))

\* Faulty variant: divides by one more than the number of entries.
np_mean_short(s) ==
    IF s = <<>> THEN float_nan
    ELSE float_div(pairwise_sum([k \in DOMAIN s |-> float_of(s[k])], 1, Len(s)),
                   Len(s) + 1)

\* np.mean(acc_list): the float64 sum of the entries divided by their number;
\* the mean of an empty list is nan.
np_mean(s) ==
    IF s = <<>> THEN float_nan
    ELSE float_div(pairwise_sum([k \in DOMAIN s |-> float_of(s[k])], 1, Len(s)),
                   Len(s))

\* round(x, 3) of the Python float x = n/d, in thousandths.  Python rounds the
\* double's exact value: a fraction halfway between two thousandths goes to
\* the even one only when the double holds it exactly, and otherwise to the
\* side on which the double lies.
\* The thousandth taken for a fraction halfway between q and q + 1 thousandths
\* held by a double that lies on side s of it.
round_half(q, s) ==
    IF s > 0 THEN q + 1
    ELSE IF s < 0 THEN q
    ELSE IF q % 2 = 0 THEN q ELSE q + 1

round3(f) ==
    LET q == (f.n * 1000) \div f.d
        r == (f.n * 1000) % f.d
    IN  IF 2 * r < f.d THEN q
        ELSE IF 2 * r > f.d THEN q + 1
        ELSE round_half(q, float_error_sign(f))

\* print_results: the grid printed by tabulate, row by row.
print_results(precision, recall, accuracy, mse) ==
    <<[metric |-> "Precision", value |-> round3(precision)],
      [metric |-> "Recall", value |-> round3(recall)],
      [metric |-> "Accuracy", value |-> round3(accuracy)],
      [metric |-> "Mean Squared Error", value |-> round3(mse)]>>

\* results(y_test, y_pred): the table it prints.
results(yt, yp) ==
    print_results(precision_score(yt, yp), recall_score(yt, yp),
                  accuracy_score(yt, yp), mean_squared_error(yt, yp))

NoTable == <<>>

Line(text) == [kind |-> "line", text |-> <<text>>]
TableItem(t) == [kind |-> "table", text |-> [k \in DOMAIN t |-> t[k].metric]]

-----------------------------------------------------------------------------
(* Pipelines *)

LibCall(op, pipeline, Xs, ys) == [op |-> op, pipeline |-> pipeline, X |-> Xs, y |-> ys]

\* Faulty variant: fits on the test subset.
evaluate_model_leak(pipeline, X_train, X_test, y_train, y_test, pred) ==
    [calls |-> <<LibCall("fit", pipeline, X_test, y_test),
                 LibCall("predict", pipeline, X_test, <<>>)>>,
     y_pred |-> pred,
     table |-> results(y_test, pred),
     acc |-> accuracy_score(y_test, pred)]

\* evaluate_model: fit on the training subset, predict on the test subset,
\* print the metrics, return the test accuracy.  pred is what predict returns.
evaluate_model(pipeline, X_train, X_test, y_train, y_test, pred) ==
    [calls |-> <<LibCall("fit", pipeline, X_train, y_train),
                 LibCall("predict", pipeline, X_test, <<>>)>>,
     y_pred |-> pred,
     table |-> results(y_test, pred),
     acc |-> accuracy_score(y_test, pred)]

Classes(ys) == {ys[k] : k \in DOMAIN ys}
ClassSize(ys, c) == Cardinality({k \in DOMAIN ys : ys[k] = c})

KN_steps == <<"SimpleImputer(mean)", "StandardScaler", "KNeighborsClassifier">>
LR_steps == <<"SimpleImputer(mean)", "StandardScaler", "LogisticRegression">>
SVM_steps == <<"SimpleImputer(mean)", "RobustScaler", "SVC">>
XGB_steps == <<"SimpleImputer(mean)", "RobustScaler", "XGBClassifier">>

\* cv=5
n_splits == 5

\* KNeighborsClassifier(): n_neighbors=5, uniform weights
n_neighbors == 5

\* Whether cross_val_score(pipeline, X_train, y_train, cv=5) raises ValueError.
\* The five stratified folds cannot be made from fewer than five rows, nor
\* when no class has five members; and the call fails when the classifier
\* can be fitted in no fold: LogisticRegression and SVC want two classes,
\* XGBClassifier wants the label 0 among the labels.
cross_val_score_raises(pipeline, y_train) ==
    \/ Cardinality(DOMAIN y_train) < n_splits
    \/ \A c \in Classes(y_train) : ClassSize(y_train, c) < n_splits
    \/ /\ pipeline[3] \in {"LogisticRegression", "SVC"}
       /\ Cardinality(Classes(y_train)) < 2
    \/ /\ pipeline[3] = "XGBClassifier"
       /\ 0 \notin Classes(y_train)

\* How many of the positions lo .. hi - 1 fall to fold f when the positions
\* are dealt out to the folds in turn.
FoldSize(lo, hi, f) == Cardinality({p \in lo..(hi - 1) : p % n_splits = f})

\* StratifiedKFold(5), no shuffle: how many rows of each class every test fold
\* holds.  The classes are numbered in the order in which they appear in
\* y_train; first is the class of its first row.
StratifiedKFold(y_train, first) ==
    LET n == Cardinality(DOMAIN y_train)
        n_first == ClassSize(y_train, first)
    IN  [f \in 0..(n_splits - 1) |->
            [c \in {0, 1} |-> IF c = first THEN FoldSize(0, n_first, f)
                              ELSE FoldSize(n_first, n, f)]]

\* Whether a fold scores nan (error_score=nan) because the classifier cannot
\* be fitted on zeros rows of class 0 and ones rows of class 1, or cannot
\* predict after that fit: LogisticRegression and SVC want two classes,
\* XGBClassifier wants the label 0, KNeighborsClassifier wants five rows to
\* take its neighbours from.
ScoresNan(pipeline, zeros, ones) ==
    \/ pipeline[3] \in {"LogisticRegression", "SVC"} /\ (zeros = 0 \/ ones = 0)
    \/ pipeline[3] = "XGBClassifier" /\ zeros = 0
    \/ pipeline[3] = "KNeighborsClassifier" /\ zeros + ones < n_neighbors

\* The labels a classifier fitted on zeros rows of class 0 and ones rows of
\* class 1 can give to a row.  Five neighbours taken from rows of which at most
\* two belong to a class never vote for that class.  XGBClassifier with
\* min_child_weight 1 splits no node on fewer than 8 rows (a child must hold
\* 4 rows, each of hessian at most 1/4), so its trees are single leaves and it
\* answers 1 for every row when class 1 is the larger class, else 0.  What
\* the other classifiers answer depends on the feature values.
Answers(pipeline, zeros, ones) ==
    IF pipeline[3] = "KNeighborsClassifier" /\ 2 * ones < n_neighbors THEN {0}
    ELSE IF pipeline[3] = "KNeighborsClassifier" /\ 2 * zeros < n_neighbors THEN {1}
    ELSE IF pipeline[3] = "XGBClassifier" /\ zeros + ones < 2 * 4
    THEN (IF ones > zeros THEN {1} ELSE {0})
    ELSE {0, 1}

\* The accuracies one fold can score: fold[c] test rows of class c, the
\* classifier fitted on the other rows of y_train.  Frac(0, 0) is nan.
FoldScores(pipeline, y_train, fold) ==
    LET size == fold[0] + fold[1]
        zeros == ClassSize(y_train, 0) - fold[0]
        ones == ClassSize(y_train, 1) - fold[1]
        a == Answers(pipeline, zeros, ones)
    IN  IF ScoresNan(pipeline, zeros, ones) THEN {Frac(0, 0)}
        ELSE IF a = {0} THEN {Frac(fold[0], size)}
        ELSE IF a = {1} THEN {Frac(fold[1], size)}
        ELSE {Frac(correct, size) : correct \in 0..size}

\* What cross_val_score(pipeline, X_train, y_train, cv=5, scoring='accuracy')
\* may return when it does not raise: one accuracy per fold.
cross_val_score(pipeline, y_train) ==
    UNION {LET folds == StratifiedKFold(y_train, first)
               scores == [f \in 1..n_splits |->
                             FoldScores(pipeline, y_train, folds[f - 1])]
           IN  {<<s1, s2, s3, s4, s5>> : s1 \in scores[1], s2 \in scores[2],
                     s3 \in scores[3], s4 \in scores[4], s5 \in scores[5]}
           : first \in Classes(y_train)}

\* round(np.mean(cv_scores), 3), in thousandths (-1: nan).  np.mean returns a
\* numpy float64, which rounds by scaling: rint(mean * 1000) / 1000.
thousandths(u) == IF u.k = "nan" THEN -1 ELSE float_rint(u)

cv_mean_of(cv_scores) == thousandths(float_mul(np_mean(cv_scores), 1000))

\* The outcomes of cross_val_score that differ in what the pipeline function
\* goes on to print: for every mean the score arrays can have, one array
\* with the mean printed for it; no array when the call raises.
OnePerMean(all) == {CHOOSE r \in all : r.mean = m : m \in {r.mean : r \in all}}

cv_outcomes(pipeline, y_train) ==
    IF cross_val_score_raises(pipeline, y_train)
    THEN {[cv_scores |-> <<>>, mean |-> -1]}
    ELSE OnePerMean({[cv_scores |-> s, mean |-> cv_mean_of(s)] :
                        s \in cross_val_score(pipeline, y_train)})

\* train_test_split(..., test_size=0.2): n_test = ceil(0.2 * n), the rest trains.
n_test(n) == (n + 4) \div 5

\* The most rows a training subset of a file has.
MaxTrain ==
    LET rows == {Len(d.rows) - n_test(Len(d.rows)) : d \in CsvFiles}
    IN  CHOOSE n \in rows : \A k \in rows : k <= n

\* Training labels with zeros rows of class 0 and ones rows of class 1.  What
\* cross_val_score can return depends on y_train through these two numbers.
Labels(zeros, ones) == [k \in 1..(zeros + ones) |-> IF k <= zeros THEN 0 ELSE 1]

\* cv_outcomes, worked out once for every pipeline and every number of
\* training rows per class.
cv_outcomes_table ==
    {[pipeline |-> p, zeros |-> c[1], ones |-> c[2],
      outcomes |-> cv_outcomes(p, Labels(c[1], c[2]))] :
        p \in {KN_steps, LR_steps, SVM_steps, XGB_steps},
        c \in {c \in (0..MaxTrain) \X (0..MaxTrain) : c[1] + c[2] <= MaxTrain}}

cv_outcomes_of(pipeline, y_train) ==
    (CHOOSE r \in cv_outcomes_table :
        /\ r.pipeline = pipeline
        /\ r.zeros = ClassSize(y_train, 0)
        /\ r.ones = ClassSize(y_train, 1)).outcomes

\* What pipeline.predict(X_test) may return for the test rows T after the fit
\* on y_train.
predict(pipeline, y_train, T) ==
    [T -> Answers(pipeline, ClassSize(y_train, 0), ClassSize(y_train, 1))]

\* What a pipeline function leaves behind, given its call of cross_val_score,
\* whether that call raised, and the outcome e of evaluate_model.
pipeline_outcome(label, cv_call, raised, cv, e) ==
    IF raised
    THEN [raised |-> TRUE, calls |-> <<cv_call>>]
    ELSE [raised |-> FALSE,
          calls |-> <<cv_call>> \o e.calls,
          out |-> <<Line(label), Line("Mean CV accuracy:"), TableItem(e.table)>>,
          cv_mean |-> cv.mean,
          y_pred |-> e.y_pred,
          table |-> e.table,
          acc |-> e.acc]

\* The body shared by the four pipeline functions: cross_val_score on the
\* training subset, two prints, then evaluate_model.  An exception raised by
\* cross_val_score leaves the function before anything is printed.  cv is
\* the outcome of cross_val_score, pred that of predict.
pipeline_body(label, pipeline, X_train, X_test, y_train, y_test, cv, pred) ==
    pipeline_outcome(label,
                     LibCall("cross_val_score", pipeline, X_train, y_train),
                     cross_val_score_raises(pipeline, y_train),
                     cv,
                     evaluate_model(pipeline, X_train, X_test, y_train, y_test, pred))

KN_pipeline(X_train, X_test, y_train, y_test, cv, pred) ==
    pipeline_body("Results for KNeighbors pipeline:", KN_steps,
                  X_train, X_test, y_train, y_test, cv, pred)

\* Faulty variant: the SVM pipeline pasted under the name LR_pipeline.
LR_pipeline_pasted(X_train, X_test, y_train, y_test, cv, pred) ==
    pipeline_body("Results for SVM pipeline:", SVM_steps,
                  X_train, X_test, y_train, y_test, cv, pred)

LR_pipeline(X_train, X_test, y_train, y_test, cv, pred) ==
    pipeline_body("Results for Logistic Regression pipeline:", LR_steps,
                  X_train, X_test, y_train, y_test, cv, pred)

SVM_pipeline(X_train, X_test, y_train, y_test, cv, pred) ==
    pipeline_body("Results for SVM pipeline:", SVM_steps,
                  X_train, X_test, y_train, y_test, cv, pred)

XGBoost_pipeline(X_train, X_test, y_train, y_test, cv, pred) ==
    pipeline_body("Results for XGBoost pipeline:", XGB_steps,
                  X_train, X_test, y_train, y_test, cv, pred)

-----------------------------------------------------------------------------
(* Splits *)

NoSplit == [train |-> {}, test |-> {}, random_state |-> "None"]

\* The test subsets the shuffle can select among rows 1..n.
TestSubsets(n) == {T \in SUBSET (1..n) : Cardinality(T) = n_test(n)}

train_test_split(n, T, random_state) ==
    [train |-> (1..n) \ T, test |-> T, random_state |-> random_state]

YTrain == [k \in split.train |-> y[k]]
YTest == [k \in split.test |-> y[k]]

-----------------------------------------------------------------------------
(* Accuracy traces *)

NoAccuracies == <<>>
EmptyAccuracies == [m \in Range(ModelNames) |-> <<>>]

\* a <= b for fractions with positive denominators
FracLeq(a, b) == a.n * b.d <= b.n * a.d

\* Faulty variant: the list is used as it is, unsorted.
sorted_unsorted(s) == s

\* sorted(acc_list)
sorted(s) == SortSeq(s, LAMBDA a, b : a.n * b.d < b.n * a.d)

\* What plot_performance draws for one model: the line from the smallest to
\* the largest accuracy (floats n/d) and the dot at the mean (a double).
Marks(acc_list, mean) ==
    LET acc_list_sorted == sorted(acc_list)
    IN  [min |-> acc_list_sorted[1],
         max |-> acc_list_sorted[Len(acc_list_sorted)],
         mean |-> mean]

NoFigure == <<>>

-----------------------------------------------------------------------------
(* Initial states *)

InitHarness ==
    /\ i = 0
    /\ frame = "none"
    /\ accuracies = NoAccuracies
    /\ mean_accuracies = NoAccuracies
    /\ accs = <<>>
    /\ split = NoSplit
    /\ calls = <<>>
    /\ cv_mean = 0
    /\ y_pred = <<>>
    /\ table = NoTable
    /\ plotted = NoFigure

InitNoCall ==
    /\ arg = 0
    /\ before = DataFrame(<<>>)
    /\ ret = 0
    /\ X = <<>>
    /\ y = <<>>
    /\ exit_code = -1
    /\ stdout = <<>>

\* python model.py: the file may or may not be there.
Init ==
    /\ pc = "read"
    /\ fs \in BOOLEAN
    /\ csv \in CsvFiles
    /\ heap = <<>>
    /\ df = 0
    /\ trace = <<>>
    /\ num \in 0..MaxIter
    /\ InitNoCall
    /\ InitHarness

\* The cleaning steps of main() on any file of up to MaxRows records.
InitClean ==
    /\ pc = "dropna"
    /\ fs = TRUE
    /\ csv \in {DataFrame(rows) : rows \in SeqsUpTo(RowSamples, MaxRows)}
    /\ heap = <<csv>>
    /\ df = 1
    /\ trace = <<"read_csv">>
    /\ num = 0
    /\ InitNoCall
    /\ InitHarness

\* results() on any labels and predictions of up to MaxTest test rows.
InitMetrics ==
    /\ pc = "results"
    /\ fs = TRUE
    /\ csv = DataFrame(<<>>)
    /\ heap = <<>>
    /\ df = 0
    /\ trace = <<>>
    /\ num = 0
    /\ arg = 0
    /\ before = DataFrame(<<>>)
    /\ ret = 0
    /\ X = <<>>
    /\ exit_code = -1
    /\ stdout = <<>>
    /\ i = 0
    /\ frame = "none"
    /\ accuracies = NoAccuracies
    /\ mean_accuracies = NoAccuracies
    /\ accs = <<>>
    /\ calls = <<>>
    /\ cv_mean = 0
    /\ table = NoTable
    /\ plotted = NoFigure
    /\ \E n \in 1..MaxTest :
          /\ y \in [1..n -> {0, 1}]
          /\ split = train_test_split(n, 1..n, "None")
          /\ y_pred \in [1..n -> {0, 1}]

\* Accuracies on a test subset of ten rows.
AccuracySamples == {Frac(1, 10), Frac(5, 10), Frac(7, 10), Frac(10, 10)}

Reverse(s) == [k \in DOMAIN s |-> s[Len(s) + 1 - k]]

\* np.mean (line 138) and the marks of plot_performance (lines 155-159) on
\* any accuracy trace of 1 to MaxTrace entries; the models hold it in either
\* order.
InitMarks ==
    /\ pc = "marks"
    /\ fs = TRUE
    /\ csv = DataFrame(<<>>)
    /\ heap = <<>>
    /\ df = 0
    /\ trace = <<>>
    /\ num = 0
    /\ InitNoCall
    /\ i = 0
    /\ frame = "none"
    /\ \E n \in 1..MaxTrace, t \in [1..MaxTrace -> AccuracySamples] :
          accuracies = [m \in Range(ModelNames) |->
                           IF m \in {"KNeighbors", "SVM"} THEN SubSeq(t, 1, n)
                           ELSE Reverse(SubSeq(t, 1, n))]
    /\ mean_accuracies = NoAccuracies
    /\ accs = <<>>
    /\ split = NoSplit
    /\ calls = <<>>
    /\ cv_mean = 0
    /\ y_pred = <<>>
    /\ table = NoTable
    /\ plotted = NoFigure

-----------------------------------------------------------------------------
(* main(): reading the file *)

\* line 171: pd.read_csv, or FileNotFoundError caught at line 172
ReadCsv ==
    /\ pc = "read"
    /\ trace' = Append(trace, "read_csv")
    /\ IF fs
       THEN /\ heap' = Append(heap, csv)
            /\ df' = Len(heap) + 1
            /\ pc' = "dropna"
       ELSE /\ UNCHANGED <<heap, df>>
            /\ pc' = "fetch"
    /\ UNCHANGED <<fs, csv, arg, before, ret, X, y, exit_code, stdout>>
    /\ UNCHANGED harnessVars

\* line 173: fetch_data() leaves the file in place, or fails to.
FetchData ==
    /\ pc = "fetch"
    /\ trace' = Append(trace, "fetch_data")
    /\ fs' \in BOOLEAN
    /\ pc' = "retry"
    /\ UNCHANGED <<csv, exit_code, stdout, X, y>>
    /\ UNCHANGED cleanVars
    /\ UNCHANGED harnessVars

\* Faulty variant: a second miss fetches again instead of exiting.
RetryRead_again ==
    /\ pc = "retry"
    /\ trace' = Append(trace, "read_csv")
    /\ IF fs
       THEN /\ heap' = Append(heap, csv)
            /\ df' = Len(heap) + 1
            /\ pc' = "dropna"
       ELSE /\ pc' = "fetch"
            /\ UNCHANGED <<heap, df>>
    /\ UNCHANGED <<fs, csv, arg, before, ret, X, y, exit_code, stdout>>
    /\ UNCHANGED harnessVars

\* lines 174-178: the second read; a second miss prints and exits with 1
RetryRead ==
    /\ pc = "retry"
    /\ trace' = Append(trace, "read_csv")
    /\ IF fs
       THEN /\ heap' = Append(heap, csv)
            /\ df' = Len(heap) + 1
            /\ pc' = "dropna"
            /\ UNCHANGED <<exit_code, stdout>>
       ELSE /\ stdout' = Append(stdout, Line("Error fetching data. Please try again."))
            /\ exit_code' = 1
            /\ pc' = "exited"
            /\ UNCHANGED <<heap, df>>
    /\ UNCHANGED <<fs, csv, arg, before, ret, X, y>>
    /\ UNCHANGED harnessVars

-----------------------------------------------------------------------------
(* main(): cleaning *)

\* line 180: df = df.dropna().reset_index(drop=True), a new object
DropNa ==
    /\ pc = "dropna"
    /\ trace' = Append(trace, "dropna")
    /\ arg' = df
    /\ before' = heap[df]
    /\ heap' = Append(heap, dropna(heap[df]))
    /\ ret' = Len(heap) + 1
    /\ df' = ret'
    /\ pc' = "process_target"
    /\ UNCHANGED <<fs, csv, X, y, exit_code, stdout>>
    /\ UNCHANGED harnessVars

\* line 181: df = process_target(df)
ProcessTarget ==
    /\ pc = "process_target"
    /\ trace' = Append(trace, "process_target")
    /\ arg' = df
    /\ before' = heap[df]
    /\ LET r == process_target(heap, df)
       IN  /\ heap' = r.heap
           /\ ret' = r.ret
           /\ df' = r.ret
    /\ pc' = "handle_outliers"
    /\ UNCHANGED <<fs, csv, X, y, exit_code, stdout>>
    /\ UNCHANGED harnessVars

\* line 182: df = handle_outliers(df)
HandleOutliers ==
    /\ pc = "handle_outliers"
    /\ trace' = Append(trace, "handle_outliers")
    /\ arg' = df
    /\ before' = heap[df]
    /\ LET r == handle_outliers(heap, df)
       IN  /\ heap' = r.heap
           /\ ret' = r.ret
           /\ df' = r.ret
    /\ pc' = "select"
    /\ UNCHANGED <<fs, csv, X, y, exit_code, stdout>>
    /\ UNCHANGED harnessVars

\* lines 184-186: X = df[[...13 columns...]], y = df['target']
SelectXy ==
    /\ pc = "select"
    /\ X' = [k \in DOMAIN heap[df].rows |->
               [c \in Range(FeatureColumns) |-> heap[df].rows[k][c]]]
    /\ y' = Column(heap[df], "target")
    /\ pc' = "call_iter"
    /\ UNCHANGED <<fs, csv, trace, exit_code, stdout>>
    /\ UNCHANGED cleanVars
    /\ UNCHANGED harnessVars

-----------------------------------------------------------------------------
(* The pipelines, as called by the two harness functions *)

\* A harness function returns: its locals are gone, the figure is closed.
Return ==
    /\ i' = 0
    /\ frame' = "none"
    /\ accuracies' = NoAccuracies
    /\ mean_accuracies' = NoAccuracies
    /\ accs' = <<>>
    /\ split' = NoSplit
    /\ calls' = <<>>
    /\ cv_mean' = 0
    /\ y_pred' = <<>>
    /\ table' = NoTable
    /\ plotted' = NoFigure

\* An uncaught exception ends the process with a traceback and status 1.
Raise ==
    /\ pc' = "crashed"
    /\ exit_code' = 1

\* The effects of one pipeline call that is followed by position next; the
\* harness keeps the returned accuracy only in evaluate_models_iteratively
\* (KN_acc = ..., line 128).  An exception of the call is caught nowhere.
Effects(r, next) ==
    /\ calls' = calls \o r.calls
    /\ IF r.raised
       THEN /\ Raise
            /\ UNCHANGED <<stdout, cv_mean, y_pred, table, accs>>
       ELSE /\ stdout' = stdout \o r.out
            /\ cv_mean' = r.cv_mean
            /\ y_pred' = r.y_pred
            /\ table' = r.table
            /\ accs' = IF frame = "iter" THEN Append(accs, r.acc) ELSE accs
            /\ pc' = next
            /\ UNCHANGED exit_code
    /\ UNCHANGED <<fs, csv, X, y, trace>>
    /\ UNCHANGED cleanVars
    /\ UNCHANGED <<num, i, frame, accuracies, mean_accuracies, split, plotted>>

\* lines 128 and 146
RunKN ==
    /\ pc = "KN"
    /\ \E cv \in cv_outcomes_of(KN_steps, YTrain),
          pred \in predict(KN_steps, YTrain, split.test) :
          Effects(KN_pipeline(split.train, split.test, YTrain, YTest, cv, pred),
                  "LR")

\* lines 129 and 147
RunLR ==
    /\ pc = "LR"
    /\ \E cv \in cv_outcomes_of(LR_steps, YTrain),
          pred \in predict(LR_steps, YTrain, split.test) :
          Effects(LR_pipeline(split.train, split.test, YTrain, YTest, cv, pred),
                  "SVM")

\* lines 130 and 148
RunSVM ==
    /\ pc = "SVM"
    /\ \E cv \in cv_outcomes_of(SVM_steps, YTrain),
          pred \in predict(SVM_steps, YTrain, split.test) :
          Effects(SVM_pipeline(split.train, split.test, YTrain, YTest, cv, pred),
                  "XGB")

\* lines 131 and 149
RunXGB ==
    /\ pc = "XGB"
    /\ \E cv \in cv_outcomes_of(XGB_steps, YTrain),
          pred \in predict(XGB_steps, YTrain, split.test) :
          Effects(XGBoost_pipeline(split.train, split.test, YTrain, YTest, cv, pred),
                  IF frame = "iter" THEN "append" ELSE "once_return")

-----------------------------------------------------------------------------
(* evaluate_models_iteratively(X, y, num) *)

\* line 189 and line 123
CallIterative ==
    /\ pc = "call_iter"
    /\ frame' = "iter"
    /\ accuracies' = EmptyAccuracies
    /\ i' = 0
    /\ pc' = "loop"
    /\ UNCHANGED <<fs, csv, X, y, trace, exit_code, stdout>>
    /\ UNCHANGED cleanVars
    /\ UNCHANGED <<num, mean_accuracies, accs, split, calls, cv_mean, y_pred, table, plotted>>

\* lines 125-126: one more iteration, on a fresh unseeded split
IterSplit ==
    /\ pc = "loop"
    /\ frame = "iter"
    /\ i < num
    /\ trace' = Append(trace, "train_test_split")
    /\ IF Len(y) - n_test(Len(y)) <= 0
       THEN /\ Raise
            /\ UNCHANGED <<split, calls>>
       ELSE /\ \E T \in TestSubsets(Len(y)) :
                  split' = train_test_split(Len(y), T, "None")
            /\ calls' = <<>>
            /\ pc' = "KN"
            /\ UNCHANGED exit_code
    /\ UNCHANGED <<fs, csv, X, y, stdout>>
    /\ UNCHANGED cleanVars
    /\ UNCHANGED <<num, i, frame, accuracies, mean_accuracies, accs, cv_mean, y_pred, table, plotted>>

\* lines 133-136: the four appends that end an iteration; the split and the
\* results of its pipeline calls are not read again.
IterAppend ==
    /\ pc = "append"
    /\ accuracies' = [m \in Range(ModelNames) |->
                        Append(accuracies[m],
                               accs[CHOOSE k \in DOMAIN ModelNames : ModelNames[k] = m])]
    /\ accs' = <<>>
    /\ i' = i + 1
    /\ split' = NoSplit
    /\ calls' = <<>>
    /\ cv_mean' = 0
    /\ y_pred' = <<>>
    /\ table' = NoTable
    /\ pc' = "loop"
    /\ UNCHANGED <<fs, csv, X, y, trace, exit_code, stdout>>
    /\ UNCHANGED cleanVars
    /\ UNCHANGED <<num, frame, mean_accuracies, plotted>>

\* line 138: the loop is over, the means are computed
IterMean ==
    /\ pc = "loop"
    /\ frame = "iter"
    /\ i = num
    /\ mean_accuracies' = [m \in Range(ModelNames) |-> np_mean(accuracies[m])]
    /\ pc' = "plot"
    /\ UNCHANGED <<fs, csv, X, y, trace, exit_code, stdout>>
    /\ UNCHANGED cleanVars
    /\ UNCHANGED <<num, i, frame, accuracies, accs, split, calls, cv_mean, y_pred, table, plotted>>

\* line 140 and lines 152-166: acc_list_sorted[0] of an empty list raises
PlotPerformance ==
    /\ pc = "plot"
    /\ trace' = Append(trace, "plot_performance")
    /\ IF \E m \in Range(ModelNames) : accuracies[m] = <<>>
       THEN /\ Raise
            /\ UNCHANGED plotted
       ELSE /\ plotted' = [m \in Range(ModelNames) |->
                             Marks(accuracies[m], mean_accuracies[m])]
            /\ pc' = "iter_return"
            /\ UNCHANGED exit_code
    /\ UNCHANGED <<fs, csv, X, y, stdout>>
    /\ UNCHANGED cleanVars
    /\ UNCHANGED <<num, i, frame, accuracies, mean_accuracies, accs, split, calls, cv_mean, y_pred, table>>

\* plt.show() returns, the function returns: its locals and the figure are gone
IterReturn ==
    /\ pc = "iter_return"
    /\ Return
    /\ pc' = "call_once"
    /\ UNCHANGED <<fs, csv, X, y, trace, exit_code, stdout, num>>
    /\ UNCHANGED cleanVars

-----------------------------------------------------------------------------
(* evaluate_models_once(X, y) *)

\* line 192 and line 144: the split seeded with 42
OnceSplit ==
    /\ pc = "call_once"
    /\ frame' = "once"
    /\ trace' = Append(trace, "train_test_split")
    /\ IF Len(y) - n_test(Len(y)) <= 0
       THEN /\ Raise
            /\ UNCHANGED <<split, calls>>
       ELSE /\ \E T \in TestSubsets(Len(y)) :
                  split' = train_test_split(Len(y), T, "42")
            /\ calls' = <<>>
            /\ pc' = "KN"
            /\ UNCHANGED exit_code
    /\ UNCHANGED <<fs, csv, X, y, stdout>>
    /\ UNCHANGED cleanVars
    /\ UNCHANGED <<num, i, accuracies, mean_accuracies, accs, cv_mean, y_pred, table, plotted>>

\* evaluate_models_once returns, main returns
OnceReturn ==
    /\ pc = "once_return"
    /\ Return
    /\ exit_code' = 0
    /\ pc' = "done"
    /\ UNCHANGED <<fs, csv, X, y, trace, stdout, num>>
    /\ UNCHANGED cleanVars

-----------------------------------------------------------------------------
(* results(y_test, y_pred) called alone *)

Results ==
    /\ pc = "results"
    /\ table' = results(YTest, y_pred)
    /\ stdout' = Append(stdout, TableItem(table'))
    /\ pc' = "results_done"
    /\ UNCHANGED <<fs, csv, X, y, trace, exit_code>>
    /\ UNCHANGED cleanVars
    /\ UNCHANGED <<num, i, frame, accuracies, mean_accuracies, accs, split, calls, cv_mean, y_pred, plotted>>

-----------------------------------------------------------------------------
(* np.mean and the marks of plot_performance called alone *)

\* line 138, then lines 155-159 for every model
MarksAlone ==
    /\ pc = "marks"
    /\ mean_accuracies' = [m \in Range(ModelNames) |-> np_mean(accuracies[m])]
    /\ plotted' = [m \in Range(ModelNames) |->
                      Marks(accuracies[m], mean_accuracies'[m])]
    /\ pc' = "marks_done"
    /\ UNCHANGED <<fs, csv, X, y, trace, exit_code, stdout>>
    /\ UNCHANGED cleanVars
    /\ UNCHANGED <<num, i, frame, accuracies, accs, split, calls, cv_mean, y_pred, table>>

-----------------------------------------------------------------------------
(* Specifications *)

Next ==
    \/ ReadCsv \/ FetchData \/ RetryRead
    \/ DropNa \/ ProcessTarget \/ HandleOutliers \/ SelectXy
    \/ CallIterative \/ IterSplit \/ RunKN \/ RunLR \/ RunSVM \/ RunXGB
    \/ IterAppend \/ IterMean \/ PlotPerformance \/ IterReturn
    \/ OnceSplit \/ OnceReturn

Spec == Init /\ [][Next]_vars

\* The cleaning steps alone, on every small file.
NextClean == DropNa \/ ProcessTarget \/ HandleOutliers

SpecClean == InitClean /\ [][NextClean]_vars

\* results() alone, on every small pair of label vectors.
NextMetrics == Results

SpecMetrics == InitMetrics /\ [][NextMetrics]_vars

\* Runs of main() together with np.mean and the marks on every small trace.
NextTraces == Next \/ MarksAlone

SpecTraces == (Init \/ InitMarks) /\ [][NextTraces]_vars

-----------------------------------------------------------------------------
(* Properties *)

CountOf(s, x) == Cardinality({k \in DOMAIN s : s[k] = x})

CleaningOps == {"dropna", "process_target", "handle_outliers"}

ErrorLine == Line("Error fetching data. Please try again.")

\* C1: a missing file is recovered at most once.  fetch_data is reached only
\* from a first read that found no file; it is called at most once, right
\* after the first read, and followed by exactly one more read; no run reads
\* more than twice; a second miss prints the message, exits with status 1
\* and has run no cleaning step, no split and no pipeline.
C1_RecoveredAtMostOnce ==
    /\ CountOf(trace, "fetch_data") <= 1
    /\ CountOf(trace, "read_csv") <= 2
    /\ pc = "fetch" => ~fs /\ trace = <<"read_csv">>
    /\ pc = "retry" => trace = <<"read_csv", "fetch_data">>
    /\ CountOf(trace, "fetch_data") = 0 /\ pc # "read" /\ pc # "fetch"
          => fs /\ trace[1] = "read_csv" /\ CountOf(trace, "read_csv") = 1
    /\ CountOf(trace, "fetch_data") = 1 /\ pc # "retry"
          => SubSeq(trace, 1, 3) = <<"read_csv", "fetch_data", "read_csv">>
             /\ CountOf(trace, "read_csv") = 2
    /\ pc = "exited"
          => /\ ~fs
             /\ trace = <<"read_csv", "fetch_data", "read_csv">>
             /\ stdout = <<ErrorLine>>
             /\ exit_code = 1
             /\ heap = <<>> /\ df = 0 /\ X = <<>> /\ y = <<>>
             /\ frame = "none" /\ calls = <<>> /\ table = NoTable
    /\ exit_code = 1 /\ pc # "crashed" => pc = "exited"

\* C1 witness: the second read missed too and the process has exited.
C1_Witness == pc = "exited" /\ exit_code = 1 /\ CountOf(trace, "fetch_data") = 1

\* C2: process_target yields a 'target' column with values in {0,1}, 1 exactly
\* for the rows whose 'num' is strictly greater than 0; 'num' is gone, every
\* other column and the number and order of the rows are as before.
C2_TargetEncoder ==
    pc = "handle_outliers" =>
        LET old == before
            new == heap[ret]
        IN  /\ "num" \in Range(old.columns)
            /\ "num" \notin Range(new.columns)
            /\ "target" \in Range(new.columns)
            /\ Len(new.rows) = Len(old.rows)
            /\ \A k \in DOMAIN new.rows :
                  /\ DOMAIN new.rows[k] = (DOMAIN old.rows[k] \ {"num"}) \cup {"target"}
                  /\ new.rows[k]["target"] \in {0, 1}
                  /\ new.rows[k]["target"] = 1 <=> old.rows[k]["num"] > 0
                  /\ \A c \in DOMAIN old.rows[k] \ {"num"} :
                        new.rows[k][c] = old.rows[k][c]

\* C2 witness: process_target has encoded a dataset holding severities 0, 1
\* and above 1.
C2_Witness ==
    /\ pc = "handle_outliers"
    /\ \E k \in DOMAIN before.rows : before.rows[k]["num"] = 0
    /\ \E k \in DOMAIN before.rows : before.rows[k]["num"] = Unit
    /\ \E k \in DOMAIN before.rows : before.rows[k]["num"] > Unit

InFence(v, f) == f.lo <= v /\ v <= f.hi

\* C3: after handle_outliers every value of the five bounded columns lies in
\* [Q1 - 1.5*IQR, Q3 + 1.5*IQR] of its column as it was when the call was
\* made; a value that was inside is unchanged, a value below (above) sits on
\* the lower (upper) fence; every other column is unchanged.
C3_WithinFences ==
    pc = "select" =>
        LET old == before
            new == heap[ret]
        IN  /\ Len(new.rows) = Len(old.rows)
            /\ \A k \in DOMAIN new.rows :
                  /\ DOMAIN new.rows[k] = DOMAIN old.rows[k]
                  /\ \A c \in DOMAIN new.rows[k] :
                        IF c \in Range(BoundedColumns)
                        THEN LET f == Fence(Column(old, c))
                             IN  /\ InFence(new.rows[k][c], f)
                                 /\ InFence(old.rows[k][c], f)
                                       => new.rows[k][c] = old.rows[k][c]
                                 /\ old.rows[k][c] < f.lo => new.rows[k][c] = f.lo
                                 /\ old.rows[k][c] > f.hi => new.rows[k][c] = f.hi
                        ELSE new.rows[k][c] = old.rows[k][c]

\* C3 witness: handle_outliers met a value below a fence and one above a
\* fence (and values inside).
C3_Witness ==
    /\ pc = "select"
    /\ \E k \in DOMAIN before.rows, c \in Range(BoundedColumns) :
          before.rows[k][c] < Fence(Column(before, c)).lo
    /\ \E k \in DOMAIN before.rows, c \in Range(BoundedColumns) :
          before.rows[k][c] > Fence(Column(before, c)).hi
    /\ \E k \in DOMAIN before.rows, c \in Range(BoundedColumns) :
          InFence(before.rows[k][c], Fence(Column(before, c)))

AllNegative == \A k \in DOMAIN y_pred : y_pred[k] = 0
SomePositive == \E k \in split.test : y[k] = 1

\* C5 as stated: with y_pred all zeros and a positive label in y_test,
\* precision and recall are both 1.
C5_Original ==
    pc = "results_done" /\ AllNegative /\ SomePositive
        => table[1].value = 1000 /\ table[2].value = 1000

\* C5 amended: with y_pred all zeros and a positive label in y_test, results
\* prints its table (no exception); precision is 1 by the zero-division
\* convention (no positive prediction), recall is 0 (its denominator, the
\* number of positive labels, is not zero).
C5_AllNegativePredictions ==
    pc = "results_done" /\ AllNegative /\ SomePositive
        => /\ Len(table) = 4
           /\ table[1] = [metric |-> "Precision", value |-> 1000]
           /\ table[2] = [metric |-> "Recall", value |-> 0]
           /\ stdout = <<TableItem(table)>>

\* C5 witness: results has run on all-zero predictions against labels that
\* hold a positive.
C5_Witness == pc = "results_done" /\ AllNegative /\ SomePositive

Outside(d) ==
    \E k \in DOMAIN d.rows, c \in Range(BoundedColumns) :
        ~InFence(d.rows[k][c], Fence(Column(d, c)))

\* C6 as stated: handle_outliers leaves the object it was passed unchanged.
C6_Original == pc = "select" => heap[arg] = before

\* C6 amended: handle_outliers clamps the dataset object it is passed in
\* place and returns that same object: no new object is made, the caller's
\* object holds the clamped data, and it is unchanged exactly when no value
\* of a bounded column lay outside its fence.
C6_ClampsInPlace ==
    pc = "select" =>
        /\ ret = arg
        /\ df = arg
        /\ Len(heap) = 2
        /\ heap[arg] = before <=> ~Outside(before)
        /\ \A k \in DOMAIN heap[arg].rows, c \in Range(BoundedColumns) :
              InFence(heap[arg].rows[k][c], Fence(Column(before, c)))

\* C6 witness: handle_outliers has changed the object the caller passed.
C6_Witness == pc = "select" /\ heap[arg] # before /\ ret = arg

RECURSIVE TraceTotal(_, _)
TraceTotal(s, k) == IF k = 0 THEN 0 ELSE s[k].n + TraceTotal(s, k - 1)

\* u is at most n units in the last place away from v.
RECURSIVE Above(_, _)
Above(v, n) == IF n = 0 THEN v ELSE float_succ(Above(v, n - 1))

RECURSIVE Below(_, _)
Below(v, n) == IF n = 0 THEN v ELSE float_pred(Below(v, n - 1))

Near(u, v, n) == \E j \in 0..n : u = Above(v, j) \/ u = Below(v, j)

\* C4: in evaluate_models_iteratively, after i completed iterations (and as
\* many splits) each of the four traces has exactly i entries, i never
\* exceeds num, and when the loop has ended each trace has num entries and
\* each reported mean is, to floating-point tolerance (num + 2 units in the
\* last place), the sum of the trace divided by num (nan for num = 0).
C4_TracesAndMeans ==
    frame = "iter" =>
        /\ i <= num
        /\ DOMAIN accuracies = Range(ModelNames)
        /\ \A m \in Range(ModelNames) : Len(accuracies[m]) = i
        /\ pc = "loop" => CountOf(trace, "train_test_split") = i
        /\ pc = "append" => Len(accs) = 4
        /\ pc \in {"plot", "iter_return"} =>
              /\ i = num
              /\ \A m \in Range(ModelNames) :
                    LET t == accuracies[m]
                        mean == mean_accuracies[m]
                    IN  /\ Len(t) = num
                        /\ IF num = 0 THEN mean = float_nan
                           ELSE /\ \A k \in DOMAIN t : t[k].d = t[1].d
                                /\ Near(mean,
                                        float_of(Frac(TraceTotal(t, num), num * t[1].d)),
                                        num + 2)

\* C4 witness: the loop of a run with num = 2 has ended with a trace holding
\* two different accuracies, and the means are computed.
C4_Witness ==
    /\ pc = "plot"
    /\ num = 2
    /\ accuracies["SVM"][1] # accuracies["SVM"][2]
    /\ accuracies["KNeighbors"][1] = accuracies["KNeighbors"][2]

PipelineSteps == <<KN_steps, LR_steps, SVM_steps, XGB_steps>>

MetricRows == <<"Precision", "Recall", "Accuracy", "Mean Squared Error">>

Block ==
    <<Line("Results for KNeighbors pipeline:"), Line("Mean CV accuracy:"),
      [kind |-> "table", text |-> MetricRows],
      Line("Results for Logistic Regression pipeline:"), Line("Mean CV accuracy:"),
      [kind |-> "table", text |-> MetricRows],
      Line("Results for SVM pipeline:"), Line("Mean CV accuracy:"),
      [kind |-> "table", text |-> MetricRows],
      Line("Results for XGBoost pipeline:"), Line("Mean CV accuracy:"),
      [kind |-> "table", text |-> MetricRows]>>

Tables(out) == Cardinality({k \in DOMAIN out : out[k].kind = "table"})

\* C7: when evaluate_models_once has run its last pipeline it has made exactly
\* one split (seed 42, test subset the ceiling of 20%), has run the pipelines
\* k-NN, logistic regression, SVM, XGBoost once each on that split in that
\* order, and has printed exactly four tables; every table has the rows
\* Precision, Recall, Accuracy, Mean Squared Error in that order with the
\* first three values in [0,1]; every iteration of
\* evaluate_models_iteratively runs the same pipelines in the same order,
\* one table each.
C7_FourPipelinesInOrder ==
    /\ table # NoTable =>
          /\ [k \in DOMAIN table |-> table[k].metric] = MetricRows
          /\ \A k \in 1..3 : table[k].value \in 0..1000
    /\ pc \in {"append", "once_return"} =>
          /\ Len(calls) = 12
          /\ \A k \in 1..4 :
                /\ calls[3 * k - 2].op = "cross_val_score"
                /\ calls[3 * k - 1].op = "fit"
                /\ calls[3 * k].op = "predict"
                /\ \A j \in 0..2 : calls[3 * k - j].pipeline = PipelineSteps[k]
          /\ \A k \in DOMAIN calls : calls[k].X \in {split.train, split.test}
          /\ SubSeq(stdout, Len(stdout) - 11, Len(stdout)) = Block
          /\ Tables(stdout) = 4 * CountOf(trace, "train_test_split")
    /\ pc = "append" =>
          /\ frame = "iter"
          /\ split.random_state = "None"
          /\ CountOf(trace, "train_test_split") = i + 1
    /\ pc = "once_return" =>
          /\ frame = "once"
          /\ split.random_state = "42"
          /\ split.test \cap split.train = {}
          /\ split.test \cup split.train = DOMAIN y
          /\ 5 * Cardinality(split.test) >= Len(y)
          /\ 5 * (Cardinality(split.test) - 1) < Len(y)
          /\ CountOf(trace, "train_test_split") = num + 1
          /\ Tables(stdout) = 4 * num + 4

\* C7 witness: evaluate_models_once has run its four pipelines, after an
\* iterative run of two iterations.
C7_Witness == pc = "once_return" /\ num = 2 /\ Len(calls) = 12

HarnessPcs ==
    {"call_iter", "loop", "KN", "LR", "SVM", "XGB", "append", "plot",
     "iter_return", "call_once", "once_return", "done", "crashed"}

CompleteRows(d) == Cardinality({k \in DOMAIN d.rows : \A c \in DOMAIN d.rows[k] : ~isna(d.rows[k][c])})

\* C8: the cleaning steps run in the order dropna, process_target,
\* handle_outliers, each exactly once and before any split; when main calls
\* a harness function, X has no missing value, y is binary, and every
\* bounded column of X lies within the fences of the full cleaned dataset
\* (all complete rows of the file) as computed by the one handle_outliers call.
C8_CleanBeforeSplit ==
    /\ LET ops == SelectSeq(trace, LAMBDA e : e \in CleaningOps \cup {"train_test_split"})
       IN  \A k \in DOMAIN ops :
              ops[k] = IF k = 1 THEN "dropna"
                       ELSE IF k = 2 THEN "process_target"
                       ELSE IF k = 3 THEN "handle_outliers"
                       ELSE "train_test_split"
    /\ pc \in HarnessPcs => \A op \in CleaningOps : CountOf(trace, op) = 1
    /\ pc \in {"call_iter", "call_once"} =>
          /\ Len(X) = CompleteRows(csv)
          /\ Len(y) = Len(X)
          /\ Len(before.rows) = Len(X)
          /\ \A k \in DOMAIN X :
                /\ \A c \in DOMAIN X[k] : ~isna(X[k][c])
                /\ y[k] \in {0, 1}
          /\ \A c \in Range(BoundedColumns) :
                LET f == Fence(Column(before, c))
                IN  \A k \in DOMAIN X : InFence(X[k][c], f)

\* C8 witness: a split exists in a run whose file had incomplete rows and
\* values outside the fences.
C8_Witness ==
    /\ pc = "KN"
    /\ CompleteRows(csv) < Len(csv.rows)
    /\ Outside(before)
    /\ split.test # {}

Correct == Cardinality({k \in split.test : y_pred[k] = y[k]})

\* C9: in every pipeline call cross-validation comes first and gets the
\* training subset, fit comes next and gets the training subset, predict
\* comes last and gets the test subset; no row of the test subset is given
\* to cross-validation or fit; the value returned is the share of test rows
\* predicted correctly, whatever the cross-validation scores were.
C9_TestSetHeldOut ==
    pc \in {"LR", "SVM", "XGB", "append", "once_return"} =>
        LET n == Len(calls)
        IN  /\ n >= 3
            /\ calls[n - 2].op = "cross_val_score"
            /\ calls[n - 1].op = "fit"
            /\ calls[n].op = "predict"
            /\ \A k \in DOMAIN calls :
                  IF calls[k].op = "predict"
                  THEN calls[k].X = split.test
                  ELSE /\ calls[k].X = split.train
                       /\ calls[k].X \cap split.test = {}
                       /\ calls[k].y = YTrain
            /\ DOMAIN y_pred = split.test
            /\ frame = "iter" =>
                  accs[Len(accs)] = Frac(Correct, Cardinality(split.test))
            /\ table[3].value = round3(Frac(Correct, Cardinality(split.test)))

\* C9 witness: in an iteration the KNeighbors pipeline has printed a
\* cross-validation mean of 0.8 and returned accuracy 0: it takes both test
\* rows, which have heart disease, for healthy.
C9_Witness ==
    /\ pc = "LR"
    /\ frame = "iter"
    /\ cv_mean = 800
    /\ \A k \in split.test : y[k] = 1 /\ y_pred[k] = 0
    /\ accs = <<Frac(0, 2)>>

PlotAt == CHOOSE k \in DOMAIN trace : trace[k] = "plot_performance"

\* mean >= smallest and mean <= largest, as doubles.
MeanInRange(mk) ==
    /\ float_leq(float_of(mk.min), mk.mean)
    /\ float_leq(mk.mean, float_of(mk.max))

\* The same, give or take n units in the last place.
MeanNearRange(mk, n) ==
    /\ float_leq(Below(float_of(mk.min), n), mk.mean)
    /\ float_leq(mk.mean, Above(float_of(mk.max), n))

\* When and with what plot_performance is called: at most once, only when
\* num splits have been made, the loop has ended and the means are computed;
\* for num >= 1 every trace it gets is non-empty and it draws, per model, the
\* smallest and the largest accuracy of the trace and the mean it was given;
\* once evaluate_models_iteratively has returned it has been called exactly
\* once.
PlotCalledOnce ==
    /\ CountOf(trace, "plot_performance") <= 1
    /\ CountOf(trace, "plot_performance") = 1 =>
          CountOf(SubSeq(trace, 1, PlotAt), "train_test_split") = num
    /\ pc = "plot" =>
          /\ i = num
          /\ DOMAIN mean_accuracies = Range(ModelNames)
          /\ CountOf(trace, "plot_performance") = 0
          /\ num >= 1 => \A m \in Range(ModelNames) : accuracies[m] # <<>>
    /\ pc = "crashed" /\ frame = "iter" /\ CountOf(trace, "plot_performance") = 1
          => num = 0 /\ plotted = NoFigure
    /\ pc = "iter_return" =>
          /\ num >= 1
          /\ i = num
          /\ \A m \in Range(ModelNames) :
                LET t == accuracies[m]
                    mk == plotted[m]
                IN  /\ \E k \in DOMAIN t : t[k] = mk.min
                    /\ \E k \in DOMAIN t : t[k] = mk.max
                    /\ \A k \in DOMAIN t : FracLeq(mk.min, t[k]) /\ FracLeq(t[k], mk.max)
                    /\ mk.mean = mean_accuracies[m]
    /\ pc \in {"iter_return", "call_once", "once_return", "done"} \/ frame = "once"
          => CountOf(trace, "plot_performance") = 1

\* C10 as stated: plot_performance is called once, after the loop and the
\* means, with non-empty traces for num >= 1, and for every model
\* smallest <= mean <= largest.
C10_Original ==
    /\ PlotCalledOnce
    /\ pc \in {"iter_return", "marks_done"} =>
          \A m \in Range(ModelNames) : MeanInRange(plotted[m])

\* C10 amended: plot_performance is called once, after the loop and the
\* means, with non-empty traces for num >= 1; the mean of a model lies
\* between its smallest and its largest accuracy only up to the rounding of
\* the float64 sum: for a trace of n accuracies it is at most n + 2 units in
\* the last place below the smallest or above the largest.
C10_PlotAfterLoop ==
    /\ PlotCalledOnce
    /\ pc \in {"iter_return", "marks_done"} =>
          \A m \in Range(ModelNames) :
             MeanNearRange(plotted[m], Len(accuracies[m]) + 2)

\* C10 witness: the mean drawn for a model lies above its largest accuracy.
C10_Witness ==
    /\ pc = "marks_done"
    /\ \E m \in Range(ModelNames) :
          ~float_leq(plotted[m].mean, float_of(plotted[m].max))

\* A run of main() has drawn the figure after two iterations, with traces
\* that are not constant.
C10_RunWitness ==
    /\ pc = "iter_return"
    /\ num = 2
    /\ \E m \in Range(ModelNames) : plotted[m].min # plotted[m].max

====
